---- MODULE Spec2Model ----
(***************************************************************************)
(* swiftbar_clocks (src/src/main.rs): a run-once tool that prints a clock  *)
(* face glyph for the local time and the time in each configured city.     *)
(*                                                                         *)
(* Two specifications:                                                     *)
(*   SpecIcon  get_accurate_clock_icon applied to every (hour, minute)     *)
(*   Spec      one run of main, under every modelled environment           *)
(***************************************************************************)
EXTENDS Integers, Sequences, FiniteSets, TLC

VARIABLES
    \* ---- call frame of get_accurate_clock_icon under SpecIcon
    hour_in,        \* argument `hour`
    minute_in,      \* argument `minute`
    icon_out,       \* returned glyph (0 before the call returns)
    arm_out,        \* source line of the match arm taken (0 before)
    icon_pc,        \* "call" | "ret" | "idle"
    \* ---- environment of a run of main
    args,           \* parsed Args: [config, list_timezones]
    home,           \* env::var_os("HOME"): a path or NoHome
    fs,             \* candidate path -> file state
    clock,          \* wall clock: the instant Local::now() would return
    local_offset,   \* UTC offset of the local zone, minutes
    \* ---- locals of main
    pc,             \* position in main
    config,         \* Config returned by load_config
    local_time,     \* DateTime<Local> captured at line 167
    clock_icon,     \* glyph chosen at line 170
    output,         \* the String built at lines 172..192 (sequence of lines)
    city_i,         \* entries of config.cities already consumed by the loop
    \* ---- what the run did to the outside
    stdout,         \* lines that reached standard output
    stderr,         \* lines that reached standard error
    reads,          \* paths handed to fs::read_to_string, in order
    trace,          \* calls that touch the outside, in order
    exit_code       \* process exit status, -1 while running

icon_vars == <<hour_in, minute_in, icon_out, arm_out, icon_pc>>
env_vars  == <<args, home, fs, local_offset>>
main_vars == <<pc, config, local_time, clock_icon, output, city_i,
               stdout, stderr, reads, trace, exit_code>>
vars == <<icon_vars, env_vars, clock, main_vars>>

----------------------------------------------------------------------------
(* Clock face constants, main.rs:13..36, as Unicode code points.           *)
CLOCK_1200 == 128347
CLOCK_1230 == 128359
CLOCK_0100 == 128336
CLOCK_0130 == 128348
CLOCK_0200 == 128337
CLOCK_0230 == 128349
CLOCK_0300 == 128338
CLOCK_0330 == 128350
CLOCK_0400 == 128339
CLOCK_0430 == 128351
CLOCK_0500 == 128340
CLOCK_0530 == 128352
CLOCK_0600 == 128341
CLOCK_0630 == 128353
CLOCK_0700 == 128342
CLOCK_0730 == 128354
CLOCK_0800 == 128343
CLOCK_0830 == 128355
CLOCK_0900 == 128344
CLOCK_0930 == 128356
CLOCK_1000 == 128345
CLOCK_1030 == 128357
CLOCK_1100 == 128346
CLOCK_1130 == 128358

Glyphs ==
    { CLOCK_1200, CLOCK_1230, CLOCK_0100, CLOCK_0130, CLOCK_0200, CLOCK_0230,
      CLOCK_0300, CLOCK_0330, CLOCK_0400, CLOCK_0430, CLOCK_0500, CLOCK_0530,
      CLOCK_0600, CLOCK_0630, CLOCK_0700, CLOCK_0730, CLOCK_0800, CLOCK_0830,
      CLOCK_0900, CLOCK_0930, CLOCK_1000, CLOCK_1030, CLOCK_1100, CLOCK_1130 }

(* The face each code point draws, as <<hour 1..12, minute>>: the          *)
(* per-constant comments of main.rs:13..36 ("twelve o'clock", ...).        *)
Face(g) ==
    CASE g = 128347 -> <<12, 0>>  [] g = 128359 -> <<12, 30>>
      [] g = 128336 -> <<1, 0>>   [] g = 128348 -> <<1, 30>>
      [] g = 128337 -> <<2, 0>>   [] g = 128349 -> <<2, 30>>
      [] g = 128338 -> <<3, 0>>   [] g = 128350 -> <<3, 30>>
      [] g = 128339 -> <<4, 0>>   [] g = 128351 -> <<4, 30>>
      [] g = 128340 -> <<5, 0>>   [] g = 128352 -> <<5, 30>>
      [] g = 128341 -> <<6, 0>>   [] g = 128353 -> <<6, 30>>
      [] g = 128342 -> <<7, 0>>   [] g = 128354 -> <<7, 30>>
      [] g = 128343 -> <<8, 0>>   [] g = 128355 -> <<8, 30>>
      [] g = 128344 -> <<9, 0>>   [] g = 128356 -> <<9, 30>>
      [] g = 128345 -> <<10, 0>>  [] g = 128357 -> <<10, 30>>
      [] g = 128346 -> <<11, 0>>  [] g = 128358 -> <<11, 30>>
      [] OTHER      -> <<0, 0>>

\* Timelike::hour() and Timelike::minute() ranges (the arguments at line 170)
Hours   == 0 .. 23
Minutes == 0 .. 59

----------------------------------------------------------------------------
(* get_accurate_clock_icon, main.rs:64..107                                *)

rounded_minute_half(minute) ==
    IF minute < 30 THEN 0 ELSE 30

rounded_minute_wide(minute) ==
    IF minute < 20 THEN 0
    ELSE IF minute < 45 THEN 30
    ELSE 0

rounded_minute(minute) ==
    IF minute < 15 THEN 0
    ELSE IF minute < 45 THEN 30
    ELSE 0

display_hour_same(hour, minute) ==
    hour % 12

display_hour_nomod(hour, minute) ==
    IF minute >= 45 THEN (hour + 1) % 12
    ELSE hour

display_hour(hour, minute) ==
    IF minute >= 45 THEN (hour + 1) % 12
    ELSE hour % 12

\* the arm of the match at lines 80..106 that takes (dh, rm): its line
match_arm(dh, rm) ==
    CASE (dh = 12 /\ rm = 0)  \/ (dh = 0 /\ rm = 0)  -> 81
      [] (dh = 12 /\ rm = 30) \/ (dh = 0 /\ rm = 30) -> 82
      [] dh = 1  /\ rm = 0  -> 83
      [] dh = 1  /\ rm = 30 -> 84
      [] dh = 2  /\ rm = 0  -> 85
      [] dh = 2  /\ rm = 30 -> 86
      [] dh = 3  /\ rm = 0  -> 87
      [] dh = 3  /\ rm = 30 -> 88
      [] dh = 4  /\ rm = 0  -> 89
      [] dh = 4  /\ rm = 30 -> 90
      [] dh = 5  /\ rm = 0  -> 91
      [] dh = 5  /\ rm = 30 -> 92
      [] dh = 6  /\ rm = 0  -> 93
      [] dh = 6  /\ rm = 30 -> 94
      [] dh = 7  /\ rm = 0  -> 95
      [] dh = 7  /\ rm = 30 -> 96
      [] dh = 8  /\ rm = 0  -> 97
      [] dh = 8  /\ rm = 30 -> 98
      [] dh = 9  /\ rm = 0  -> 99
      [] dh = 9  /\ rm = 30 -> 100
      [] dh = 10 /\ rm = 0  -> 101
      [] dh = 10 /\ rm = 30 -> 102
      [] dh = 11 /\ rm = 0  -> 103
      [] dh = 11 /\ rm = 30 -> 104
      [] OTHER              -> 105

\* the glyph each arm yields
arm_icon(arm) ==
    CASE arm = 81 -> CLOCK_1200  [] arm = 82 -> CLOCK_1230
      [] arm = 83 -> CLOCK_0100  [] arm = 84 -> CLOCK_0130
      [] arm = 85 -> CLOCK_0200  [] arm = 86 -> CLOCK_0230
      [] arm = 87 -> CLOCK_0300  [] arm = 88 -> CLOCK_0330
      [] arm = 89 -> CLOCK_0400  [] arm = 90 -> CLOCK_0430
      [] arm = 91 -> CLOCK_0500  [] arm = 92 -> CLOCK_0530
      [] arm = 93 -> CLOCK_0600  [] arm = 94 -> CLOCK_0630
      [] arm = 95 -> CLOCK_0700  [] arm = 96 -> CLOCK_0730
      [] arm = 97 -> CLOCK_0800  [] arm = 98 -> CLOCK_0830
      [] arm = 99 -> CLOCK_0900  [] arm = 100 -> CLOCK_0930
      [] arm = 101 -> CLOCK_1000 [] arm = 102 -> CLOCK_1030
      [] arm = 103 -> CLOCK_1100 [] arm = 104 -> CLOCK_1130
      [] OTHER     -> CLOCK_1200

icon_arm(hour, minute) ==
    match_arm(display_hour(hour, minute), rounded_minute(minute))

get_accurate_clock_icon(hour, minute) ==
    arm_icon(icon_arm(hour, minute))

----------------------------------------------------------------------------
(* Bounds of the model                                                     *)
MaxCities == 2      \* longest `cities` list a configuration file holds
MaxTicks  == 1      \* minutes the wall clock may advance during a run

----------------------------------------------------------------------------
(* Values.  Option<T> is a sequence of length 0 (None / Err) or 1 (Some /  *)
(* Ok).  A path is the sequence of its components: "~/a/b" is              *)
(* <<"~", "a", "b">> and "/etc/x" is <<"", "etc", "x">>.                   *)

None == << >>
Some(x) == << x >>
IsSome(o) == Len(o) > 0
Unwrap(o) == o[1]

\* main.rs:10
DEFAULT_SWIFTBAR_CLOCK_CONFIG == <<"~", ".config", "swiftbar_clock_config.yaml">>

\* values of --config / SWIFTBAR_CLOCK_CONFIG (main.rs:43..44)
ConfigPaths == { DEFAULT_SWIFTBAR_CLOCK_CONFIG, <<"", "etc", "clocks.yaml">> }

\* values of env::var_os("HOME") (main.rs:126)
Homes == { None, Some(<<"", "home", "u">>) }

\* CityConfig, main.rs:58..62
CityConfig(name, timezone) == [name |-> name, timezone |-> timezone]

(* An entry of a YAML `cities` list before deserialisation: each required  *)
(* field may be absent, and fields CityConfig does not declare may be      *)
(* present.                                                                *)
YamlEntries ==
    { [name |-> Some("Tokyo"),    timezone |-> Some("Asia/Tokyo"),    note |-> FALSE],
      [name |-> Some("London"),   timezone |-> Some("Europe/London"), note |-> TRUE],
      [name |-> Some("Atlantis"), timezone |-> Some("Mars/Olympus"),  note |-> TRUE],
      [name |-> Some("Nowhere"),  timezone |-> None,                  note |-> FALSE] }

SeqUpTo(S, n) == UNION { [1 .. k -> S] : k \in 0 .. n }

(* File contents: text that is a YAML mapping with a `cities` list         *)
(* (mapping = TRUE), or any other text (mapping = FALSE).                  *)
Contents ==
    { [mapping |-> TRUE, cities |-> cs] : cs \in SeqUpTo(YamlEntries, MaxCities) }
    \cup { [mapping |-> FALSE, cities |-> << >>] }

\* what fs::read_to_string finds at a path: Err (None) or Ok(content)
FileStates == { None } \cup { Some(c) : c \in Contents }

\* chrono_tz::TZ_VARIANTS (main.rs:111), with each zone's UTC offset in minutes
TZ_VARIANTS == << "America/New_York", "Asia/Tokyo", "Europe/London" >>

tz_offset(tz) ==
    CASE tz = "America/New_York" -> -300
      [] tz = "Asia/Tokyo"       -> 540
      [] tz = "Europe/London"    -> 0
      [] OTHER                   -> 0

\* str::parse::<Tz>, main.rs:178
parse_tz(timezone) ==
    IF \E k \in 1 .. Len(TZ_VARIANTS) : TZ_VARIANTS[k] = timezone
    THEN Some(timezone) ELSE None

\* instants are minutes since 00:00 UTC of the day the run starts
MinutesPerDay == 24 * 60
StartInstants == { 14 * 60 + 47, 23 * 60 + 59 }
LocalOffsets == { -480 }

\* DateTime<Tz>: an instant seen in a zone
DateTime(instant, offset) == [instant |-> instant, offset |-> offset]
NoTime == DateTime(-1, 0)

\* Timelike::hour / Timelike::minute of a DateTime (main.rs:170, 182, 183)
wall_minutes(dt) == (dt.instant + dt.offset + MinutesPerDay) % MinutesPerDay
dt_hour(dt)   == wall_minutes(dt) \div 60
dt_minute(dt) == wall_minutes(dt) % 60

\* DateTime::with_timezone, main.rs:179
with_timezone(dt, tz) == DateTime(dt.instant, tz_offset(tz))

\* lines of text, all of one shape
Line(kind, n1, n2, tz, name) ==
    [kind |-> kind, n1 |-> n1, n2 |-> n2, tz |-> tz, name |-> name]

IconLine(icon)   == Line("icon", icon, 0, "", "")                   \* line 173
SeparatorLine    == Line("---", 0, 0, "", "")                       \* line 174
Rfc2822Line(dt)  == Line("rfc2822", dt.instant, dt.offset, "", "")  \* line 176
TzNameLine(tz)   == Line("tz", 0, 0, tz, "")                        \* line 112

\* format!("{:02}:{:02} {}\n", ...), main.rs:180..185
CityLine(city_time, name) ==
    Line("HH:MM", dt_hour(city_time), dt_minute(city_time), "", name)

\* eprintln!("Warning: Invalid timezone '{}' for {}", ...), main.rs:187..190
WarningLine(timezone, name) ==
    Line("Warning: Invalid timezone", 0, 0, timezone, name)

----------------------------------------------------------------------------
(* load_config, main.rs:116..155                                           *)

\* serde_yaml::from_str::<Config>, main.rs:119 and 131: a document without
\* the `cities` list, or with an entry lacking a declared field, is an Err;
\* undeclared fields are dropped.
from_str(content) ==
    IF content.mapping
       /\ \A k \in 1 .. Len(content.cities) :
              IsSome(content.cities[k].name) /\ IsSome(content.cities[k].timezone)
    THEN Some([cities |->
                 [k \in 1 .. Len(content.cities) |->
                    CityConfig(Unwrap(content.cities[k].name),
                               Unwrap(content.cities[k].timezone))]])
    ELSE None

\* fs::read_to_string, main.rs:118 and 130
read_to_string(path) ==
    IF path \in DOMAIN fs THEN fs[path] ELSE None

\* read and parse one candidate (lines 118..119, 130..131)
try_load(path) ==
    IF IsSome(read_to_string(path))
    THEN from_str(Unwrap(read_to_string(path)))
    ELSE None

\* path.starts_with("~/"), main.rs:125
starts_with_tilde(path) == Len(path) >= 2 /\ path[1] = "~"

\* PathBuf::from(home) pushed with &path[2..], main.rs:127..128
expanded_path(h, path) == h \o SubSeq(path, 2, Len(path))

\* the built-in list, main.rs:139..154
DefaultConfig ==
    [cities |-> << CityConfig("New York", "America/New_York"),
                   CityConfig("London", "Europe/London"),
                   CityConfig("Tokyo", "Asia/Tokyo") >>]

\* the second attempt is made (lines 125..126)
second_attempt(path) ==
    /\ ~IsSome(try_load(path))
    /\ starts_with_tilde(path)
    /\ IsSome(home)

load_config_expanded_first(path) ==
    IF starts_with_tilde(path) /\ IsSome(home)
       /\ IsSome(try_load(expanded_path(Unwrap(home), path)))
    THEN Unwrap(try_load(expanded_path(Unwrap(home), path)))
    ELSE IF IsSome(try_load(path)) THEN Unwrap(try_load(path))
    ELSE DefaultConfig

load_config_empty_is_default(path) ==
    IF IsSome(try_load(path)) /\ Len(Unwrap(try_load(path)).cities) > 0
    THEN Unwrap(try_load(path))
    ELSE IF second_attempt(path)
            /\ IsSome(try_load(expanded_path(Unwrap(home), path)))
    THEN Unwrap(try_load(expanded_path(Unwrap(home), path)))
    ELSE DefaultConfig

load_config(path) ==
    IF IsSome(try_load(path)) THEN Unwrap(try_load(path))
    ELSE IF second_attempt(path)
            /\ IsSome(try_load(expanded_path(Unwrap(home), path)))
    THEN Unwrap(try_load(expanded_path(Unwrap(home), path)))
    ELSE DefaultConfig

\* the paths load_config hands to fs::read_to_string, in order
load_config_reads(path) ==
    IF second_attempt(path)
    THEN << path, expanded_path(Unwrap(home), path) >>
    ELSE << path >>

----------------------------------------------------------------------------
(* main, main.rs:157..197                                                  *)

\* lines 161..164: list_timezones() (lines 109..114), then return
ListTimezones ==
    /\ pc = "main"
    /\ args.list_timezones
    /\ stdout' = stdout \o [k \in 1 .. Len(TZ_VARIANTS) |-> TzNameLine(TZ_VARIANTS[k])]
    /\ trace' = trace \o [k \in 1 .. Len(TZ_VARIANTS) |-> "println"]
    /\ pc' = "exit"
    /\ exit_code' = 0
    /\ UNCHANGED <<config, local_time, clock_icon, output, city_i, stderr, reads>>
    /\ UNCHANGED <<icon_vars, env_vars, clock>>

\* line 166 moved above the check of the flag at line 161
LoadConfig_before_flag_check ==
    /\ pc = "main"
    /\ reads = << >>
    /\ config' = load_config(args.config)
    /\ reads' = reads \o load_config_reads(args.config)
    /\ trace' = trace \o [k \in 1 .. Len(load_config_reads(args.config)) |-> "read_to_string"]
    /\ pc' = IF args.list_timezones THEN "main" ELSE "now"
    /\ UNCHANGED <<local_time, clock_icon, output, city_i, stdout, stderr, exit_code>>
    /\ UNCHANGED <<icon_vars, env_vars, clock>>

\* line 166
LoadConfig ==
    /\ pc = "main"
    /\ ~args.list_timezones
    /\ config' = load_config(args.config)
    /\ reads' = reads \o load_config_reads(args.config)
    /\ trace' = trace \o [k \in 1 .. Len(load_config_reads(args.config)) |-> "read_to_string"]
    /\ pc' = "now"
    /\ UNCHANGED <<local_time, clock_icon, output, city_i, stdout, stderr, exit_code>>
    /\ UNCHANGED <<icon_vars, env_vars, clock>>

\* line 167
LocalNow ==
    /\ pc = "now"
    /\ local_time' = DateTime(clock, local_offset)
    /\ trace' = Append(trace, "Local::now")
    /\ pc' = "icon"
    /\ UNCHANGED <<config, clock_icon, output, city_i, stdout, stderr, reads, exit_code>>
    /\ UNCHANGED <<icon_vars, env_vars, clock>>

\* lines 170..176
BuildHeader ==
    /\ pc = "icon"
    /\ clock_icon' = get_accurate_clock_icon(dt_hour(local_time), dt_minute(local_time))
    /\ output' = << IconLine(clock_icon'), SeparatorLine, Rfc2822Line(local_time) >>
    /\ pc' = "cities"
    /\ UNCHANGED <<config, local_time, city_i, stdout, stderr, reads, trace, exit_code>>
    /\ UNCHANGED <<icon_vars, env_vars, clock>>

\* the instant converted for a city (line 179)
city_instant_now == DateTime(clock, local_offset)

city_instant == local_time

\* one iteration of the loop at lines 177..192
ProcessCity_stop_on_invalid ==
    /\ pc = "cities"
    /\ city_i < Len(config.cities)
    /\ LET city == config.cities[city_i + 1]
           tz   == parse_tz(city.timezone)
       IN  IF IsSome(tz)
           THEN /\ output' = Append(output,
                                CityLine(with_timezone(city_instant, Unwrap(tz)), city.name))
                /\ city_i' = city_i + 1
                /\ UNCHANGED <<stderr, trace>>
           ELSE /\ stderr' = Append(stderr, WarningLine(city.timezone, city.name))
                /\ trace' = Append(trace, "eprintln")
                /\ city_i' = Len(config.cities)
                /\ UNCHANGED output
    /\ UNCHANGED <<pc, config, local_time, clock_icon, stdout, reads, exit_code>>
    /\ UNCHANGED <<icon_vars, env_vars, clock>>

ProcessCity ==
    /\ pc = "cities"
    /\ city_i < Len(config.cities)
    /\ LET city == config.cities[city_i + 1]
           tz   == parse_tz(city.timezone)
       IN  IF IsSome(tz)
           THEN /\ output' = Append(output,
                                CityLine(with_timezone(city_instant, Unwrap(tz)), city.name))
                /\ UNCHANGED <<stderr, trace>>
           ELSE /\ stderr' = Append(stderr, WarningLine(city.timezone, city.name))
                /\ trace' = Append(trace, "eprintln")
                /\ UNCHANGED output
    /\ city_i' = city_i + 1
    /\ UNCHANGED <<pc, config, local_time, clock_icon, stdout, reads, exit_code>>
    /\ UNCHANGED <<icon_vars, env_vars, clock>>

\* the loop condition under which the write at lines 194..196 is reached
loop_done_early == city_i >= 1 \/ city_i = Len(config.cities)

loop_done == city_i = Len(config.cities)

(* lines 194..196, then the end of main.  write_all either delivers the    *)
(* whole buffer or fails after delivering the first n lines of it; the     *)
(* result is dropped (`let _ =`).                                          *)
WriteOutput ==
    /\ pc = "cities"
    /\ loop_done
    /\ \E n \in 0 .. Len(output) :
           stdout' = stdout \o SubSeq(output, 1, n)
    /\ trace' = Append(trace, "write_all")
    /\ pc' = "exit"
    /\ exit_code' = 0
    /\ UNCHANGED <<config, local_time, clock_icon, output, city_i, stderr, reads>>
    /\ UNCHANGED <<icon_vars, env_vars, clock>>

\* the wall clock moves on while the program runs
Tick ==
    /\ pc # "exit"
    /\ \E s \in StartInstants : s <= clock /\ clock < s + MaxTicks
    /\ clock' = clock + 1
    /\ UNCHANGED <<icon_vars, env_vars, main_vars>>

\* the files load_config can come to read for given arguments
CandidatePaths(path, h) ==
    { path } \cup
    IF starts_with_tilde(path) /\ IsSome(h)
    THEN { expanded_path(Unwrap(h), path) } ELSE { }

MainStart ==
    /\ pc = "main"
    /\ config = [cities |-> << >>]
    /\ local_time = NoTime
    /\ clock_icon = 0
    /\ output = << >>
    /\ city_i = 0
    /\ stdout = << >>
    /\ stderr = << >>
    /\ reads = << >>
    /\ trace = << >>
    /\ exit_code = -1

IconIdle ==
    /\ hour_in = 0
    /\ minute_in = 0
    /\ icon_out = 0
    /\ arm_out = 0
    /\ icon_pc = "idle"

Init ==
    /\ IconIdle
    /\ args \in [config : ConfigPaths, list_timezones : BOOLEAN]
    /\ home \in Homes
    /\ fs \in [CandidatePaths(args.config, home) -> FileStates]
    /\ clock \in StartInstants
    /\ local_offset \in LocalOffsets
    /\ MainStart

Next ==
    \/ ListTimezones
    \/ LoadConfig
    \/ LocalNow
    \/ BuildHeader
    \/ ProcessCity
    \/ WriteOutput
    \/ Tick

Spec == Init /\ [][Next]_vars

----------------------------------------------------------------------------
(* get_accurate_clock_icon called on every argument pair                   *)

IconCall ==
    /\ icon_pc = "call"
    /\ icon_out' = get_accurate_clock_icon(hour_in, minute_in)
    /\ arm_out' = icon_arm(hour_in, minute_in)
    /\ icon_pc' = "ret"
    /\ UNCHANGED <<hour_in, minute_in, env_vars, clock, main_vars>>

InitIcon ==
    /\ hour_in \in Hours
    /\ minute_in \in Minutes
    /\ icon_out = 0
    /\ arm_out = 0
    /\ icon_pc = "call"
    /\ args = [config |-> DEFAULT_SWIFTBAR_CLOCK_CONFIG, list_timezones |-> FALSE]
    /\ home = None
    /\ fs = [p \in CandidatePaths(args.config, home) |-> None]
    /\ clock = 0
    /\ local_offset = 0
    /\ MainStart

NextIcon == IconCall

SpecIcon == InitIcon /\ [][NextIcon]_vars

----------------------------------------------------------------------------
(* Properties of get_accurate_clock_icon, checked under SpecIcon           *)

\* an hour on the 12-hour dial, 0 shown as 12
Dial12(h) == IF h % 12 = 0 THEN 12 ELSE h % 12

\* minutes past 12:00 on the dial
DialMinutes(h, m) == (h % 12) * 60 + m

Abs(x) == IF x < 0 THEN -x ELSE x

CircularDistance(a, b) ==
    IF Abs(a - b) <= 720 - Abs(a - b) THEN Abs(a - b) ELSE 720 - Abs(a - b)

\* C1: for minute in 45..59 the result is the :00 face of the next hour,
\* (hour + 1) mod 12 with 0 shown as 12.
C1_NextHourFace ==
    (icon_pc = "ret" /\ minute_in >= 45)
        => Face(icon_out) = << Dial12(hour_in + 1), 0 >>

C1_Witness ==
    /\ icon_pc = "ret"
    /\ hour_in = 14 /\ minute_in = 47
    /\ icon_out = CLOCK_0300

\* C2: for minute in 0..44 the result is a face of the current hour mod 12
\* (0 shown as 12): :00 for minutes 0..14 and :30 for minutes 15..44.
C2_CurrentHourFace ==
    (icon_pc = "ret" /\ minute_in < 45)
        => Face(icon_out) = << Dial12(hour_in), IF minute_in < 15 THEN 0 ELSE 30 >>

C2_Witness ==
    /\ icon_pc = "ret"
    /\ hour_in = 0 /\ minute_in = 10
    /\ icon_out = CLOCK_1200

\* C3: every (hour, minute) yields one of the 24 distinct glyph constants,
\* and the arm that yields it is an explicit arm, never the default one.
C3_Total ==
    /\ Cardinality(Glyphs) = 24
    /\ icon_pc = "ret" => /\ icon_out \in Glyphs
                          /\ arm_out \in 81 .. 104

C3_Witness ==
    /\ icon_pc = "ret"
    /\ hour_in = 23 /\ minute_in = 30
    /\ arm_out = 104
    /\ icon_out = CLOCK_1130

\* C4: the face shown is within 15 minutes of the actual time, measured
\* around the 12-hour dial.
C4_NearestHalfHour ==
    icon_pc = "ret"
        => CircularDistance(DialMinutes(Face(icon_out)[1], Face(icon_out)[2]),
                            DialMinutes(hour_in, minute_in)) <= 15

C4_Witness ==
    /\ icon_pc = "ret"
    /\ hour_in = 23 /\ minute_in = 45
    /\ icon_out = CLOCK_1200
    /\ CircularDistance(DialMinutes(Face(icon_out)[1], Face(icon_out)[2]),
                        DialMinutes(hour_in, minute_in)) = 15

----------------------------------------------------------------------------
(* Properties of a run of main, checked under Spec                         *)

Rendering == ~args.list_timezones

\* how often a call occurs in the trace
Count(op) == Cardinality({ k \in 1 .. Len(trace) : trace[k] = op })

\* a file state that reads and deserialises successfully
Usable(file) ==
    /\ Len(file) = 1
    /\ file[1].mapping
    /\ \A k \in 1 .. Len(file[1].cities) :
           Len(file[1].cities[k].name) = 1 /\ Len(file[1].cities[k].timezone) = 1

\* cfg lists exactly the cities of the file, in the file's order
SameCities(cfg, file) ==
    /\ Len(cfg.cities) = Len(file[1].cities)
    /\ \A k \in 1 .. Len(cfg.cities) :
           /\ cfg.cities[k].name = file[1].cities[k].name[1]
           /\ cfg.cities[k].timezone = file[1].cities[k].timezone[1]

GivenPath == args.config
HomePath == home[1] \o Tail(args.config)
SecondApplies == args.config[1] = "~" /\ home # << >>

\* the candidate load_config must return, if any: 1, 2, or 0 for the default
Winner ==
    IF Usable(fs[GivenPath]) THEN 1
    ELSE IF SecondApplies /\ Usable(fs[HomePath]) THEN 2
    ELSE 0

BuiltInCities ==
    << [name |-> "New York", timezone |-> "America/New_York"],
       [name |-> "London",   timezone |-> "Europe/London"],
       [name |-> "Tokyo",    timezone |-> "Asia/Tokyo"] >>

\* C5: load_config returns the first candidate that reads and parses, the
\* path as given before the HOME-expanded path, which is tried only when the
\* first failed, the path starts with "~/" and HOME is set; otherwise the
\* built-in three cities; it reports nothing and the run goes on.
C5_FirstUsableCandidate ==
    (Rendering /\ pc # "main") =>
        /\ Winner = 1 => SameCities(config, fs[GivenPath]) /\ reads = << GivenPath >>
        /\ Winner = 2 => SameCities(config, fs[HomePath])
        /\ Winner = 0 => config.cities = BuiltInCities
        /\ reads = IF ~Usable(fs[GivenPath]) /\ SecondApplies
                   THEN << GivenPath, HomePath >> ELSE << GivenPath >>
        /\ pc = "now" => stderr = << >> /\ stdout = << >> /\ exit_code = -1

C5_Witness ==
    /\ pc = "now"
    /\ Usable(fs[GivenPath])
    /\ SecondApplies /\ Usable(fs[HomePath])
    /\ fs[HomePath] # fs[GivenPath]
    /\ Len(config.cities) = 2
    /\ config.cities[1].name = "London" /\ config.cities[2].name = "Tokyo"
    /\ fs[GivenPath][1].cities[1].note

KnownZones == { "America/New_York", "Asia/Tokyo", "Europe/London" }

\* the configured entries consumed so far whose zone resolves / does not
Consumed == SubSeq(config.cities, 1, city_i)
ValidSoFar ==
    LET ok(c) == c.timezone \in KnownZones IN SelectSeq(Consumed, ok)
InvalidSoFar ==
    LET bad(c) == c.timezone \notin KnownZones IN SelectSeq(Consumed, bad)

\* the lines of the block after the three header lines
CityLines == SubSeq(output, 4, Len(output))

\* C6: every entry is processed: one warning naming zone and city per entry
\* whose zone does not resolve, one city line per entry whose zone does, in
\* configured order, and the run ends normally with all entries consumed.
C6_EveryEntryProcessed ==
    (Rendering /\ pc \in {"cities", "exit"}) =>
        /\ Len(stderr) = Len(InvalidSoFar)
        /\ \A k \in 1 .. Len(stderr) :
               /\ stderr[k].kind = "Warning: Invalid timezone"
               /\ stderr[k].tz = InvalidSoFar[k].timezone
               /\ stderr[k].name = InvalidSoFar[k].name
        /\ Len(CityLines) = Len(ValidSoFar)
        /\ \A k \in 1 .. Len(CityLines) :
               /\ CityLines[k].kind = "HH:MM"
               /\ CityLines[k].name = ValidSoFar[k].name
        /\ pc = "exit" => city_i = Len(config.cities) /\ exit_code = 0

C6_Witness ==
    /\ pc = "exit"
    /\ Rendering
    /\ Len(config.cities) = 2
    /\ config.cities[1].timezone = "Mars/Olympus"
    /\ config.cities[2].timezone = "Asia/Tokyo"
    /\ Len(stderr) = 1
    /\ Len(CityLines) = 1

\* C7: a candidate that parses to zero cities is returned as it is, not
\* replaced by the default, and the run then writes only the glyph, the
\* separator and the timestamp line, with no city line and no warning.
C7_EmptyListIsValid ==
    (Rendering /\ pc # "main") =>
        /\ (Winner = 1 /\ fs[GivenPath][1].cities = << >>) => config.cities = << >>
        /\ (Winner = 2 /\ fs[HomePath][1].cities = << >>) => config.cities = << >>
        /\ (pc = "exit" /\ config.cities = << >>) =>
               /\ Len(output) = 3
               /\ output[1].kind = "icon"
               /\ output[2].kind = "---"
               /\ output[3].kind = "rfc2822"
               /\ stderr = << >>

C7_Witness ==
    /\ pc = "exit"
    /\ Rendering
    /\ Winner = 1
    /\ fs[GivenPath][1].cities = << >>
    /\ config.cities = << >>
    /\ stdout = output
    /\ Len(stdout) = 3

\* C8: with the list-timezones flag the run prints the zone identifiers and
\* ends; it reads no configuration, never takes the time, builds and writes
\* no block and warns of nothing.  Without the flag no identifier is listed.
C8_ListOnly ==
    /\ args.list_timezones =>
        /\ pc \in {"main", "exit"}
        /\ reads = << >>
        /\ local_time.instant = -1
        /\ clock_icon = 0
        /\ output = << >>
        /\ stderr = << >>
        /\ \A k \in 1 .. Len(trace) : trace[k] = "println"
        /\ pc = "exit" =>
               /\ exit_code = 0
               /\ Len(stdout) = Len(TZ_VARIANTS)
               /\ \A k \in 1 .. Len(stdout) :
                      stdout[k].kind = "tz" /\ stdout[k].tz = TZ_VARIANTS[k]
    /\ Rendering =>
        /\ \A k \in 1 .. Len(stdout) : stdout[k].kind # "tz"
        /\ Count("println") = 0

C8_Witness ==
    /\ args.list_timezones
    /\ pc = "exit"
    /\ Len(stdout) = 3
    /\ args.config = <<"~", ".config", "swiftbar_clock_config.yaml">>
    /\ Usable(fs[GivenPath])

\* C9: the block is handed to standard output once, in one write, after
\* every city was processed and after every warning; it is the glyph, the
\* separator, the timestamp and then the city lines, and holds no warning.
\* Whatever the write delivers, the run ends normally and writes no more.
C9_OneWriteAtTheEnd ==
    Rendering =>
        /\ Count("write_all") = IF pc = "exit" THEN 1 ELSE 0
        /\ pc # "exit" => stdout = << >>
        /\ pc = "exit" =>
            /\ trace[Len(trace)] = "write_all"
            /\ city_i = Len(config.cities)
            /\ Len(output) >= 3
            /\ output[1].kind = "icon"
            /\ output[2].kind = "---"
            /\ output[3].kind = "rfc2822"
            /\ \A k \in 4 .. Len(output) : output[k].kind = "HH:MM"
            /\ Len(output) = 3 + Len(config.cities) - Len(stderr)
            /\ Len(stdout) <= Len(output)
            /\ stdout = SubSeq(output, 1, Len(stdout))
            /\ exit_code = 0

C9_Witness ==
    /\ Rendering
    /\ pc = "exit"
    /\ Len(config.cities) = 2
    /\ Len(stderr) = 1
    /\ Len(output) = 4
    /\ Len(stdout) = 2

\* the k-th city line shows the captured instant in the k-th valid zone
ShowsCapturedInstant(k) ==
    LET shift == CASE ValidSoFar[k].timezone = "America/New_York" -> -300
                   [] ValidSoFar[k].timezone = "Asia/Tokyo"       -> 540
                   [] ValidSoFar[k].timezone = "Europe/London"    -> 0
        wall  == (local_time.instant + shift + 1440) % 1440
    IN  /\ CityLines[k].n1 = wall \div 60
        /\ CityLines[k].n2 = wall % 60

\* the trace never shows op1 after op2
NeverAfter(op1, op2) ==
    \A j, k \in 1 .. Len(trace) : (trace[j] = op2 /\ trace[k] = op1) => k < j

C10_State ==
    Rendering =>
        /\ Count("Local::now") = IF pc \in {"main", "now"} THEN 0 ELSE 1
        /\ NeverAfter("read_to_string", "Local::now")
        /\ NeverAfter("Local::now", "eprintln")
        /\ NeverAfter("Local::now", "write_all")
        /\ city_i > 0 => Count("Local::now") = 1
        /\ pc \in {"cities", "exit"} =>
            /\ LET wall == (local_time.instant + local_time.offset + 1440) % 1440
               IN  output[1] = IconLine(get_accurate_clock_icon(wall \div 60, wall % 60))
            /\ output[1].n1 = clock_icon
            /\ output[3].n1 = local_time.instant
            /\ output[3].n2 = local_time.offset
            /\ Len(CityLines) = Len(ValidSoFar)
            /\ \A k \in 1 .. Len(CityLines) : ShowsCapturedInstant(k)

C10_TimeFixed == (pc \in {"icon", "cities", "exit"}) => local_time' = local_time
C10_ConfigFixed == (pc # "main") => config' = config

\* C10: the instant is taken once, after the configuration is resolved and
\* before any city is processed, and never changes; glyph, timestamp and
\* every city line come from it; the configuration never changes once
\* load_config has returned.
C10_OneInstant ==
    /\ []C10_State
    /\ [][C10_TimeFixed]_vars
    /\ [][C10_ConfigFixed]_vars

C10_Witness ==
    /\ Rendering
    /\ pc = "exit"
    /\ clock # local_time.instant
    /\ local_time.offset = -480
    /\ Len(CityLines) = 2
    /\ CityLines[1].name = "Tokyo"
    /\ CityLines[1].n1 # (local_time.instant + local_time.offset + 1440) % 1440 \div 60

====
